---- MODULE Spec2Model ----
(***************************************************************************)
(* Link block tool (src/src/index.js): one tool instance, its saved data   *)
(* (_data.link, _data.linkData), the view it builds in render(), the       *)
(* fetches started by paste events and the settle timers of hideProgress.  *)
(*                                                                         *)
(* JavaScript values that may be undefined are tagged records:             *)
(*   Undefined            the value undefined (a missing property)         *)
(*   Obj(props)           an object; props is a function from its own      *)
(*                        property names to their values                   *)
(* Strings are TLA+ strings; text assigned to innerHTML is plain text.     *)
(***************************************************************************)
EXTENDS Integers, Sequences, FiniteSets, TLC

VARIABLES
    dataObj,        \* this._data: the object it designates
    link,           \* this._data.link
    linkData,       \* this._data.linkData
    rendered,       \* render() has built this.nodes
    container,      \* the children of this.nodes.container, in order
    progress,       \* state classes on this.nodes.progress
    preview,        \* linkImage / linkTitle / linkDescription / linkText
    inflight,       \* requests of ajax.get not yet resolved or rejected
    timers,         \* pending setTimeout callbacks of hideProgress, in order
    notifications,  \* calls of this.api.notifier.show
    escaped,        \* errors that left the component uncaught
    fetchCount,     \* number of ajax.get calls made
    successes,      \* number of fetch completions that took onFetch's success branch
    pasted,         \* the clipboard texts of the paste events handled, in order
    overlapped,     \* a paste was handled while a fetch was still outstanding
    origin,         \* how _data came about: the constructor's data while nothing
                    \* else has written _data, then whether the setter has run
    last            \* the latest operation with its input or result

vars == <<dataObj, link, linkData, rendered, container, progress, preview, inflight,
          timers, notifications, escaped, fetchCount, successes, pasted,
          overlapped, origin, last>>

(***************************************************************************)
(* Bounds                                                                  *)
(***************************************************************************)
MaxPastes == 2

(***************************************************************************)
(* Values                                                                  *)
(***************************************************************************)
Undefined == [type |-> "undefined"]

Obj(props) == [type |-> "object", props |-> props]

IsObject(v) == v.type = "object"

EmptyObj == Obj(<<>>)

\* o[k] is an own property of object o
Has(o, k) == k \in DOMAIN o.props

\* Object.keys(o)
Keys(o) == DOMAIN o.props

\* link metadata a backend may send
Metas ==
    { EmptyObj,
      Obj([title |-> "T2", description |-> "D2", image |-> [url |-> "I2"]]),
      Obj([title |-> "", image |-> <<>>]) }

\* clipboard texts
Texts == {"", "u1"}

\* texts typed into the input
Typed == {"abc"}

\* links a host may have stored
HostLinks == {"", "x"}

\* link metadata a host may have stored
HostMetas == {EmptyObj, Obj([title |-> "T1", image |-> [url |-> "I1"]])}

\* data objects handed over by the host: each field present or absent
HostData ==
    {<<>>}
    \cup {[link |-> l] : l \in HostLinks}
    \cup {[linkData |-> m] : m \in HostMetas}
    \cup {[link |-> l, linkData |-> m] : l \in HostLinks, m \in HostMetas}

\* the user config
Config == [endpoints |-> [byUrl |-> "/fetchUrl"]]

\* bodies a resolved request may carry
Response(body, success, meta) == [body |-> body, success |-> success, meta |-> meta]

Responses ==
    { Response("none", "missing", Undefined),
      Response("json", "missing", Undefined),
      Response("json", "0", Obj([title |-> "T1"])) }
    \cup {Response("json", "1", m) : m \in Metas \cup {Undefined}}

\* response && response.success
Succeeded(response) == response.body = "json" /\ response.success = "1"

NoValue == [type |-> "none"]

FailMessage == [message |-> "Can not get this link data, try another", style |-> "error"]

\* the preview nodes as prepareLinkPreview creates them
EmptyPreview == [image |-> "", title |-> "", description |-> "", text |-> "", href |-> "<none>"]

(***************************************************************************)
(* constructor / set data                                                  *)
(***************************************************************************)
\* data.link || ''
DataLink(d) == IF "link" \in DOMAIN d /\ d.link # "" THEN d.link ELSE ""

\* a setter that takes linkData only together with a link
DataLinkDataWithLink(d) ==
    IF "linkData" \in DOMAIN d /\ "link" \in DOMAIN d THEN d.linkData ELSE EmptyObj

\* data.linkData || {}
DataLinkData(d) == IF "linkData" \in DOMAIN d THEN d.linkData ELSE EmptyObj

\* config.endpoints || '' , then .byUrl
ByUrl(c) == IF "endpoints" \in DOMAIN c THEN c.endpoints.byUrl ELSE "undefined"

\* the object literal the constructor assigns to this._data
NewData == 1

Init ==
    \E d \in HostData :
        /\ dataObj = NewData
        /\ link = DataLink(d)
        /\ linkData = DataLinkData(d)
        /\ rendered = FALSE
        /\ container = <<>>
        /\ progress = {}
        /\ preview = EmptyPreview
        /\ inflight = <<>>
        /\ timers = <<>>
        /\ notifications = <<>>
        /\ escaped = {}
        /\ fetchCount = 0
        /\ successes = 0
        /\ pasted = <<>>
        /\ overlapped = FALSE
        /\ origin = [by |-> "construct", data |-> d]
        /\ last = [op |-> "construct", arg |-> d]

SetData(d) ==
    /\ link' = DataLink(d)
    /\ linkData' = DataLinkData(d)
    /\ origin' = [by |-> "set"]
    /\ last' = [op |-> "set", arg |-> d, had |-> IsObject(linkData) /\ Keys(linkData) # {}]
    /\ UNCHANGED <<dataObj, rendered, container, progress, preview, inflight, timers,
                   notifications, escaped, fetchCount, successes, pasted, overlapped>>

(***************************************************************************)
(* showLinkPreview                                                         *)
(***************************************************************************)
\* 'url(' + meta.image.url + ')'
ImageUrl(image) == IF "url" \in DOMAIN image THEN image.url ELSE "undefined"

ShowImage(p, meta) ==
    IF Has(meta, "image")
    THEN [p EXCEPT !.image = "url(" \o ImageUrl(meta.props.image) \o ")"]
    ELSE p

ShowTitle(p, meta) ==
    IF Has(meta, "title") /\ meta.props.title # ""
    THEN [p EXCEPT !.title = meta.props.title]
    ELSE p

ShowDescription(p, meta) ==
    IF Has(meta, "description") /\ meta.props.description # ""
    THEN [p EXCEPT !.description = meta.props.description]
    ELSE p

ShowAnchor(p, lnk) == [p EXCEPT !.text = lnk, !.href = lnk]

ShowLinkPreview(p, meta, lnk) ==
    ShowAnchor(ShowDescription(ShowTitle(ShowImage(p, meta), meta), meta), lnk)

(***************************************************************************)
(* render / save                                                           *)
(***************************************************************************)
\* a render() that keys the phase on the link instead
HasLinkDataByLink == link # ""

\* Object.keys(this._data.linkData).length
HasLinkData == Cardinality(Keys(linkData)) # 0

\* parent.insertBefore(node, ref) on the children of parent
InsertBefore(children, node, ref) ==
    LET i == CHOOSE k \in 1..Len(children) : children[k] = ref
    IN SubSeq(children, 1, i - 1) \o <<node>> \o SubSeq(children, i, Len(children))

\* a remove() that leaves the node where it is
RemoveNodeKept(children, node) == children

\* node.remove() on the children of its parent
RemoveNode(children, node) == SelectSeq(children, LAMBDA c : c # node)

\* the input holder is in the view
InputInView == \E k \in 1..Len(container) : container[k] = "inputHolder"

\* The host calls render() once per instance.
Render ==
    /\ ~rendered
    /\ rendered' = TRUE
    /\ progress' = {}
    /\ IF HasLinkData
       THEN /\ preview' = ShowLinkPreview(EmptyPreview, linkData, link)
            /\ container' = <<"linkContent">>
       ELSE /\ preview' = EmptyPreview
            /\ container' = InsertBefore(<<"linkContent">>, "inputHolder", "linkContent")
    /\ last' = [op |-> "render", arg |-> NoValue]
    /\ UNCHANGED <<dataObj, link, linkData, inflight, timers, notifications, escaped,
                   fetchCount, successes, pasted, overlapped, origin>>

\* a save() that hands back linkData only for a non-empty link
SaveValueChecked == [link |-> link, linkData |-> IF link = "" THEN EmptyObj ELSE linkData]

\* this.data, as save() returns it
SaveValue == [link |-> link, linkData |-> linkData]

\* a getter that returned a copy of this._data: a new object
GetDataCopy == dataObj + 1

\* get data(): the object this._data designates, not a copy of it
GetData == dataObj

Save ==
    /\ last' = [op |-> "save", arg |-> SaveValue, ref |-> GetData]
    /\ UNCHANGED <<dataObj, link, linkData, rendered, container, progress, preview, inflight,
                   timers, notifications, escaped, fetchCount, successes, pasted, overlapped, origin>>

(***************************************************************************)
(* the input: typing and pasting                                           *)
(***************************************************************************)
\* No listener is registered for typing: it changes the input element's own
\* text, which no code of the tool reads.
Type(t) ==
    /\ rendered /\ InputInView
    /\ last' = [op |-> "type", arg |-> t]
    /\ UNCHANGED <<dataObj, link, linkData, rendered, container, progress, preview, inflight,
                   timers, notifications, escaped, fetchCount, successes, pasted, overlapped, origin>>

\* showProgress
ShowProgress(classes) == classes \cup {"loading"}

\* a request built from the link stored before this paste
RequestStale(url) == [url |-> ByUrl(Config), data |-> link]

\* the request ajax.get is given
Request(url) == [url |-> ByUrl(Config), data |-> url]

\* an uploadByUrl that drops the requests still in flight
StartFetchCancelling(url) == <<Request(url)>>

\* requests in flight after uploadByUrl(url)
StartFetch(url) == Append(inflight, Request(url))

\* an uploadByUrl that leaves the link to the fetch completion
UploadLinkLater(url) == link

\* _data.link after uploadByUrl(url)
UploadLink(url) == url

\* the paste listener: uploadByUrl(clipboard text); a user can paste only into
\* an input that is in the view
Paste(url) ==
    /\ rendered /\ InputInView
    /\ Len(pasted) < MaxPastes
    /\ pasted' = Append(pasted, url)
    /\ overlapped' = (overlapped \/ inflight # <<>>)
    /\ progress' = ShowProgress(progress)
    /\ link' = UploadLink(url)
    /\ inflight' = StartFetch(url)
    /\ fetchCount' = fetchCount + (Len(inflight') - Len(inflight))
    /\ last' = [op |-> "paste", arg |-> url]
    /\ origin' = IF origin.by = "construct" THEN [by |-> "paste"] ELSE origin
    /\ UNCHANGED <<dataObj, linkData, rendered, container, preview, timers, notifications,
                   escaped, successes>>

(***************************************************************************)
(* fetch completion                                                        *)
(***************************************************************************)
\* the requests left once request i has settled; requests settle in any order
Remove(s, i) == SubSeq(s, 1, i - 1) \o SubSeq(s, i + 1, Len(s))

\* a hideProgress that only marks the indicator loaded
HideProgressMarkOnly(classes) == classes \cup {"loaded"}

\* hideProgress: the classes, and the timer it starts
HideProgress(classes) == (classes \ {"loading"}) \cup {"loaded"}

\* a hideProgress whose timer always runs the preview callback
TimerAlwaysPreview(then, meta) == [then |-> "preview", meta |-> meta]

\* a timer of hideProgress with what runs after it: "preview" is onFetch's
\* then-callback with its metaData, "none" is fetchingFailed's bare call.
\* Every timer has the same 500 ms delay, so timers fire in the order set.
Timer(then, meta) == [then |-> then, meta |-> meta]

\* onFetch, success branch
OnFetchSuccess(response) ==
    /\ linkData' = response.meta
    /\ progress' = HideProgress(progress)
    /\ timers' = Append(timers, Timer("preview", response.meta))
    /\ successes' = successes + 1
    /\ UNCHANGED notifications

\* a fetchingFailed that also clears the stored linkData
FetchingFailedReset ==
    /\ notifications' = Append(notifications, FailMessage)
    /\ progress' = HideProgress(progress)
    /\ timers' = Append(timers, Timer("none", Undefined))
    /\ linkData' = EmptyObj
    /\ UNCHANGED successes

\* onFetch, failure branch: fetchingFailed
FetchingFailed ==
    /\ notifications' = Append(notifications, FailMessage)
    /\ progress' = HideProgress(progress)
    /\ timers' = Append(timers, Timer("none", Undefined))
    /\ UNCHANGED <<linkData, successes>>

\* the request's promise resolves: then(response => onFetch(response))
FetchResolve(i, response) ==
    /\ i \in 1..Len(inflight)
    /\ inflight' = Remove(inflight, i)
    /\ IF Succeeded(response)
       THEN OnFetchSuccess(response)
       ELSE FetchingFailed
    /\ last' = [op |-> "resolve", arg |-> response, req |-> inflight[i]]
    /\ UNCHANGED <<dataObj, link, rendered, container, preview, escaped, fetchCount, pasted, overlapped,
                   origin>>

\* progress classes after the catch handler
CatchProgress(classes) == classes

\* the request's promise rejects: catch(error => console.log)
FetchReject(i) ==
    /\ i \in 1..Len(inflight)
    /\ inflight' = Remove(inflight, i)
    /\ progress' = CatchProgress(progress)
    /\ last' = [op |-> "reject", arg |-> NoValue, req |-> inflight[i]]
    /\ UNCHANGED <<dataObj, link, linkData, rendered, container, preview, timers,
                   notifications, escaped, fetchCount, successes, pasted, overlapped, origin>>

\* the oldest timer of hideProgress fires and its promise's then-callback runs;
\* showLinkPreview(undefined) throws at meta.image, after the input is removed,
\* and nothing catches the rejection
SettleTimer ==
    /\ timers # <<>>
    /\ timers' = Tail(timers)
    /\ LET t == Head(timers) IN
       /\ IF t.then = "preview"
          THEN /\ container' = RemoveNode(container, "inputHolder")
               /\ IF IsObject(t.meta)
                  THEN /\ preview' = ShowLinkPreview(preview, t.meta, link)
                       /\ UNCHANGED escaped
                  ELSE /\ escaped' = escaped \cup {"TypeError"}
                       /\ UNCHANGED preview
          ELSE UNCHANGED <<container, preview, escaped>>
       /\ last' = [op |-> "timer", arg |-> t]
    /\ UNCHANGED <<dataObj, link, linkData, rendered, progress, inflight, notifications,
                   fetchCount, successes, pasted, overlapped, origin>>

Next ==
    \/ \E d \in HostData : SetData(d)
    \/ Render
    \/ Save
    \/ \E t \in Typed : Type(t)
    \/ \E url \in Texts : Paste(url)
    \/ \E i \in 1..MaxPastes, response \in Responses : FetchResolve(i, response)
    \/ \E i \in 1..MaxPastes : FetchReject(i)
    \/ SettleTimer

Spec == Init /\ [][Next]_vars

(***************************************************************************)
(* a caller that writes through the object save() has just returned        *)
(***************************************************************************)
HostMutate(l) ==
    /\ last.op = "save"
    /\ link' = IF last.ref = dataObj THEN l ELSE link
    /\ last' = [op |-> "mutate", arg |-> l]
    /\ UNCHANGED <<dataObj, linkData, rendered, container, progress, preview, inflight,
                   timers, notifications, escaped, fetchCount, successes, pasted,
                   overlapped, origin>>

HostNext == Next \/ \E l \in Texts : HostMutate(l)

HostSpec == Init /\ [][HostNext]_vars

(***************************************************************************)
(* Properties                                                              *)
(***************************************************************************)
\* the meta carries an image that has a url
HasImageUrl(m) == Has(m, "image") /\ "url" \in DOMAIN m.props.image

\* one paste so far, on an instance whose _data only the constructor and the
\* tool itself have written
SinglePaste == Len(pasted) = 1 /\ origin.by = "paste"

\* the latest operation l is a fetch completion that took the failure branch
FailedResolve(l) == l.op = "resolve" /\ ~Succeeded(l.arg)

\* the latest operation l is a fetch completion with success and a meta object
MetaResolve(l) == l.op = "resolve" /\ Succeeded(l.arg) /\ IsObject(l.arg.meta)

\* the latest operation l is a settle timer that shows the preview of a meta object
MetaTimer(l) == l.op = "timer" /\ l.arg.then = "preview" /\ IsObject(l.arg.meta)

(* C1: after a single paste of u on an instance with empty linkData, a fetch
   resolving with success and meta m makes linkData m, and once the settle
   timer has fired the input holder is out of the view, the image background
   is set exactly when m.image.url is present, title and description show
   m's values when present, and anchor text and href equal link = u. *)
C1_SinglePastePreview ==
    SinglePaste =>
        /\ MetaResolve(last) => linkData = last.arg.meta
        /\ MetaTimer(last) =>
            LET m == last.arg.meta
                u == pasted[1]
            IN /\ ~InputInView
               /\ (preview.image # "") <=> HasImageUrl(m)
               /\ Has(m, "title") => preview.title = m.props.title
               /\ Has(m, "description") => preview.description = m.props.description
               /\ link = u /\ preview.text = u /\ preview.href = u

\* after a single paste, a failed fetch completion leaves the input phase as it was
C2_Scenario ==
    (FailedResolve(last) /\ SinglePaste) =>
        /\ notifications = <<FailMessage>>
        /\ "loading" \notin progress
        /\ InputInView
        /\ preview = EmptyPreview
        /\ linkData = EmptyObj

\* what a failed fetch completion does, whatever else is going on
C2_Step ==
    FailedResolve(last') =>
        /\ notifications' = Append(notifications, FailMessage)
        /\ "loading" \notin progress'
        /\ container' = container
        /\ preview' = preview
        /\ linkData' = linkData

(* C2: a fetch resolving with a falsy or missing success, or with an empty
   response, issues exactly one notification with the fixed message, removes
   the loading marker, leaves the input holder in the view, populates no
   preview field and leaves linkData as it was before the paste. *)
C2_FailedFetch == []C2_Scenario /\ [][C2_Step]_vars

C2_Witness ==
    /\ FailedResolve(last) /\ SinglePaste
    /\ last.arg.body = "json" /\ last.arg.success = "0"
    /\ notifications = <<FailMessage>>

(* C3: when the fetch started by a paste rejects, the loading marker set by
   the paste is removed, no preview is rendered and no error leaves the
   component. *)
C3_RejectClearsLoading ==
    (last.op = "reject" /\ SinglePaste) =>
        /\ "loading" \notin progress
        /\ InputInView /\ preview = EmptyPreview
        /\ escaped = {}

(* C4: render() selects the phase from linkData alone: with at least one key
   the preview is populated from linkData and the input holder is not
   inserted; with no key the input holder is inserted right before the
   unpopulated preview node. So the first view is Previewed iff the
   constructor was given non-empty linkData. *)
C4_RenderPhase ==
    last.op = "render" =>
        /\ IF Keys(linkData) # {}
           THEN /\ container = <<"linkContent">>
                /\ preview.image = (IF Has(linkData, "image")
                                    THEN "url(" \o linkData.props.image.url \o ")"
                                    ELSE "")
                /\ preview.title = (IF Has(linkData, "title")
                                    THEN linkData.props.title ELSE "")
                /\ preview.description = (IF Has(linkData, "description")
                                          THEN linkData.props.description ELSE "")
                /\ preview.text = link /\ preview.href = link
           ELSE /\ container = <<"inputHolder", "linkContent">>
                /\ preview = EmptyPreview
        /\ origin.by = "construct" =>
               (~InputInView <=> /\ "linkData" \in DOMAIN origin.data
                                 /\ Keys(origin.data.linkData) # {})

C4_Witness ==
    /\ last.op = "render" /\ origin.by = "set"
    /\ link = "" /\ Keys(linkData) = {"title", "image"}
    /\ ~InputInView /\ preview.title = "T1" /\ preview.description = ""

\* save() right after construct({link: L, linkData: D}) returns {link: L, linkData: D}
C5_RoundTrip ==
    (last.op = "save" /\ origin.by = "construct"
        /\ DOMAIN origin.data = {"link", "linkData"}) =>
        last.arg = [link |-> origin.data.link, linkData |-> origin.data.linkData]

\* save() returns the current state, changes nothing, and returns the same again
C5_Step ==
    last'.op = "save" =>
        /\ last'.arg = [link |-> link, linkData |-> linkData]
        /\ UNCHANGED <<link, linkData, rendered, container, progress, preview,
                       inflight, timers, notifications, escaped, fetchCount, successes, pasted, overlapped>>
        /\ last.op = "save" => last'.arg = last.arg

(* C5: save() returns the current {link, linkData} verbatim and changes
   nothing: right after construct({link: L, linkData: D}) it returns exactly
   {link: L, linkData: D}, and two save() calls in a row return equal values. *)
C5_SaveVerbatim == []C5_RoundTrip /\ [][C5_Step]_vars

C5_Witness ==
    /\ last.op = "save" /\ origin.by = "construct"
    /\ origin.data = [link |-> "", linkData |-> Obj([title |-> "T1", image |-> [url |-> "I1"]])]
    /\ last.arg = origin.data

(* C6: the data setter overwrites both fields with defaulting: after
   data = d, link is d.link if present else '' and linkData is d.linkData if
   present else {}, whatever was stored before; setting {link: 'x'} on an
   instance holding non-empty linkData yields {link: 'x', linkData: {}}. *)
C6_SetterOverwrites ==
    last.op = "set" =>
        LET d == last.arg
        IN /\ link = (IF "link" \in DOMAIN d THEN d.link ELSE "")
           /\ linkData = (IF "linkData" \in DOMAIN d THEN d.linkData ELSE EmptyObj)

C6_Witness ==
    /\ last.op = "set" /\ last.arg = [link |-> "x"] /\ last.had
    /\ link = "x" /\ linkData = EmptyObj

\* a fetch starts in a paste step only, which has stored the link and shown the
\* loading marker by its end; host calls and typing start none
C7_Step ==
    /\ (fetchCount' # fetchCount \/ Len(inflight') > Len(inflight)) => last'.op = "paste"
    /\ last'.op = "paste" =>
           /\ link' = last'.arg
           /\ "loading" \in progress'
           /\ fetchCount' = fetchCount + 1
           /\ Len(inflight') = Len(inflight) + 1
           /\ timers' = timers /\ linkData' = linkData
    /\ last'.op \in {"type", "render", "save", "set"} =>
           fetchCount' = fetchCount /\ inflight' = inflight

(* C7: a fetch is started only by a paste event on the input; at the paste
   itself link already equals the pasted text and the progress indicator
   carries the loading marker; typing, render(), save() and the setter never
   start a fetch. *)
C7_OnlyPasteFetches == [][C7_Step]_vars

C7_Witness ==
    /\ last.op = "paste" /\ last.arg = "u1"
    /\ link = "u1" /\ "loading" \in progress
    /\ Len(inflight) = 1 /\ timers = <<>>

(* C8: in every reachable state linkData is a mapping and link is a string,
   whatever the host supplied and whatever the backend answered, a truthy
   success with no meta included. *)
C8_ToolStateTyped == IsObject(linkData) /\ link \in STRING

\* a paste issues one GET to config.endpoints.byUrl with url = the pasted text;
\* completions and timers issue none
C9_Step ==
    /\ last'.op = "paste" =>
           /\ inflight' = Append(inflight, [url |-> Config.endpoints.byUrl,
                                           data |-> last'.arg])
           /\ fetchCount' = fetchCount + 1
    /\ last'.op \in {"resolve", "reject", "timer"} =>
           /\ fetchCount' = fetchCount
           /\ Len(inflight') <= Len(inflight)

(* C9: each paste issues exactly one GET to config.endpoints.byUrl with
   url = the pasted text, and no fetch is issued after a failure: the number
   of fetches started always equals the number of paste events handled. *)
C9_OneFetchPerPaste == [](fetchCount = Len(pasted)) /\ [][C9_Step]_vars

C9_Witness ==
    /\ FailedResolve(last)
    /\ Len(pasted) = 1 /\ fetchCount = 1 /\ inflight = <<>>

(* C10: an instance has at most one fetch outstanding in every reachable
   state, also when a second paste happens before the first fetch completes. *)
C10_AtMostOneInFlight == Len(inflight) <= 1

\* a paste adds one outstanding fetch and keeps the earlier ones
C10_Step ==
    last'.op = "paste" =>
        /\ Len(inflight') = Len(inflight) + 1
        /\ SubSeq(inflight', 1, Len(inflight)) = inflight

(* C10, amended: each paste adds one outstanding fetch and cancels none, so
   the fetches outstanding never exceed the pastes handled: one after a paste
   made while none is outstanding, two after a second paste made before the
   first fetch completes. *)
C10_OneMorePerPaste == [](Len(inflight) <= Len(pasted)) /\ [][C10_Step]_vars

C10_Witness ==
    /\ last.op = "paste" /\ Len(pasted) = 2
    /\ Len(inflight) = 2 /\ inflight[1].data = pasted[1] /\ inflight[2].data = pasted[2]

\* the latest operation l is a failure: a failed fetch completion or a rejection
Failure(l) == FailedResolve(l) \/ l.op = "reject"

(* C11: after any failure completes, in any interleaving with the other
   pastes, fetch completions and settle timers of the instance, the input
   holder is and stays in the view and no preview is rendered. *)
C11_FailureKeepsInput ==
    (Len(notifications) > 0 \/ last.op = "reject") =>
        InputInView /\ preview = EmptyPreview

\* a failure leaves the view as it is; only the settle timer of a successful
\* fetch takes the input holder out or writes the preview
C11_Step ==
    /\ Failure(last') => container' = container /\ preview' = preview
    /\ (rendered /\ (container' # container \/ preview' # preview)) =>
           last'.op = "timer" /\ last'.arg.then = "preview" /\ successes > 0

(* C11, amended: a failure itself neither removes the input holder nor
   renders a preview; only the settle timer of a fetch that succeeded does.
   So after any failure, as long as no fetch of the instance has succeeded,
   the input holder is and stays in the view with no preview rendered, ready
   for another paste. *)
C11_FailureKeepsInputUntilSuccess ==
    /\ []((rendered /\ pasted # <<>> /\ successes = 0) =>
             InputInView /\ preview = EmptyPreview)
    /\ [][C11_Step]_vars

C11_Witness ==
    /\ last.op = "paste" /\ Len(pasted) = 2 /\ successes = 0
    /\ Len(notifications) = 1 /\ Len(inflight) = 1 /\ timers = <<>>
    /\ InputInView /\ preview = EmptyPreview

\* two pastes raced and both fetches succeeded with a meta object; every fetch
\* and timer is done and only the tool has written _data
RaceSettled ==
    /\ overlapped /\ Len(pasted) = 2 /\ successes = 2
    /\ inflight = <<>> /\ timers = <<>> /\ escaped = {}
    /\ origin.by = "paste" /\ MetaTimer(last)

(* C12: when two pastes are made before the first fetch completes and both
   fetches succeed, in either order, then once all fetches and timers are
   done linkData is the meta that resolved last and the image, title and
   description shown are exactly that meta's: a field the last meta lacks is
   not shown. *)
C12_LastWriteWins ==
    RaceSettled =>
        LET m == last.arg.meta
        IN /\ linkData = m
           /\ preview.title = (IF Has(m, "title") THEN m.props.title ELSE "")
           /\ preview.description =
                  (IF Has(m, "description") THEN m.props.description ELSE "")
           /\ (preview.image # "") <=> Has(m, "image")
           /\ HasImageUrl(m) => preview.image = "url(" \o m.props.image.url \o ")"

(* C13: link and linkData are changed only by the setter or by a successful
   fetch completion, which changes linkData alone; render(), save(), the
   paste handler, failed or rejected completions and the settle timer leave
   both unchanged. *)
C13_Step ==
    (link' # link \/ linkData' # linkData) =>
        \/ last'.op = "set"
        \/ last'.op = "resolve" /\ Succeeded(last'.arg) /\ link' = link

C13_OnlySetterAndFetch == [][C13_Step]_vars

\* as C13_Step, with the paste handler as the writer of link
C13_AmendedStep ==
    /\ (link' # link \/ linkData' # linkData) =>
           \/ last'.op = "set"
           \/ last'.op = "resolve" /\ Succeeded(last'.arg) /\ link' = link
           \/ last'.op = "paste" /\ linkData' = linkData
    /\ last'.op \in {"render", "save", "type", "reject", "timer"} =>
           link' = link /\ linkData' = linkData
    /\ FailedResolve(last') => link' = link /\ linkData' = linkData

(* C13, amended: link and linkData are changed only by the setter, by the
   paste handler, which changes link alone, or by a successful fetch
   completion, which changes linkData alone; render(), save(), failed or
   rejected completions and the settle timer leave both unchanged. *)
C13_OnlySetterPasteAndFetch == [][C13_AmendedStep]_vars

C13_Witness ==
    /\ last.op = "paste" /\ last.arg = "u1" /\ link = "u1"
    /\ pasted = <<"", "u1">> /\ origin.by = "paste"
    /\ successes = 1 /\ IsObject(linkData) /\ Keys(linkData) # {}

\* the view is in Preview phase: built, with the input holder not in it
PreviewPhase == rendered /\ ~InputInView

\* Previewed as the claim has it: rendered with non-empty linkData, or a fetch
\* has resolved with success
Previewed == rendered /\ (~InputInView \/ successes > 0)

\* nothing a user does gets through: no paste, no fetch, no change of link
NoUserChange ==
    /\ last'.op # "paste"
    /\ fetchCount' = fetchCount /\ Len(inflight') <= Len(inflight)
    /\ link' # link => last'.op = "set"

(* C14: once the instance is Previewed (constructed with non-empty linkData,
   or a fetch has resolved with success), no paste is accepted any more, no
   further fetch is started and link never changes again through user
   interaction. *)
C14_NoPasteOncePreviewed == [][Previewed => (Previewed' /\ NoUserChange)]_vars

\* the settle timer of a successful fetch puts the view in Preview phase, and
\* the Preview phase is never left
C14_Step ==
    /\ (last'.op = "timer" /\ last'.arg.then = "preview") => PreviewPhase'
    /\ PreviewPhase => (PreviewPhase' /\ NoUserChange)

(* C14, amended: once the view is in Preview phase (rendered with non-empty
   linkData, or the settle timer of a successful fetch has fired and removed
   the input holder), no paste is accepted any more, no further fetch is
   started and link never changes again through user interaction; between a
   successful completion and its settle timer pastes are still accepted. *)
C14_NoPasteInPreviewPhase == [][C14_Step]_vars

C14_Witness ==
    /\ last.op = "timer" /\ PreviewPhase
    /\ Len(pasted) = 1 /\ successes = 1 /\ inflight = <<>> /\ timers = <<>>

\* the latest operation l is the settle timer of a successful fetch
PreviewTimer(l) == l.op = "timer" /\ l.arg.then = "preview"

(* C15: a successful fetch replaces linkData when it resolves; the input
   holder is removed and the preview populated only when the settle timer
   fires, never earlier; meanwhile save() returns the new linkData; every
   settle timer that fires performs the removal and the population. *)
C15_Step ==
    /\ (last'.op = "resolve" /\ Succeeded(last'.arg)) =>
           /\ linkData' = last'.arg.meta
           /\ container' = container /\ preview' = preview
    /\ (rendered /\ (container' # container \/ preview' # preview)) =>
           PreviewTimer(last')
    /\ last'.op = "save" => last'.arg.linkData = linkData
    /\ PreviewTimer(last') =>
           /\ ~InputInView'
           /\ preview'.text = link' /\ preview'.href = link'

C15_SettleOrdering == [][C15_Step]_vars

(* C16: save() and the data getter return the object this._data designates,
   and this._data designates the same object over the instance's life: what
   was returned earlier shows every later write of the setter, the paste
   handler and the fetch completion, and a write made through the returned
   object is the state the next save() returns. *)
C16_Step ==
    /\ dataObj' = dataObj
    /\ last'.op = "save" =>
           /\ last'.ref = dataObj'
           /\ last'.arg = [link |-> link', linkData |-> linkData']
    /\ last'.op = "mutate" => link' = last'.arg
    /\ (last.op = "mutate" /\ last'.op = "save") => last'.arg.link = last.arg

C16_LiveReference == [](dataObj = NewData) /\ [][C16_Step]_vars

C16_Witness ==
    /\ last.op = "save" /\ last.ref = dataObj /\ last.arg.link = "u1"
    /\ pasted = <<"">> /\ origin.by = "paste" /\ successes = 1

(* C17: the saved pair is self-consistent: when a fetch has just set linkData
   and no fetch is outstanding (only pastes and fetch completions have
   written _data), linkData is the meta returned for the URL held in link,
   whatever the order of pastes and resolutions. *)
C17_PairConsistent ==
    (/\ last.op = "resolve" /\ Succeeded(last.arg)
     /\ inflight = <<>> /\ origin.by = "paste") =>
        /\ linkData = last.arg.meta
        /\ last.req.data = link

(* C18: the view phase agrees with the saved state: after render() and any
   pastes, fetch completions and settle timers (no setter call), once no
   fetch and no timer is outstanding the input holder is out of the view
   exactly when linkData has a property, so a new instance built from save()
   renders the same phase. *)
C18_PhaseAgrees ==
    (/\ rendered /\ inflight = <<>> /\ timers = <<>>
     /\ origin.by # "set" /\ IsObject(linkData)) =>
        (PreviewPhase <=> HasLinkData)

(* C19: the component never shows neither the input nor a populated preview:
   for every response and interleaving no step of the fetch completion or
   of the settle timer throws, and once rendered either the input holder is
   in the view or the preview anchor has been given its href. *)
C19_NeverBlank ==
    /\ escaped = {}
    /\ rendered => (InputInView \/ preview.href # EmptyPreview.href)

====
